---- MODULE Spec2Model ----
(***************************************************************************)
(* Pi Lamp API (raspberrypi/app.py): one relay on one GPIO pin, driven by  *)
(* four HTTP handlers.  lamp_on and lamp_off write the pin, health reads    *)
(* nothing, lamp_flash submits the closure _flash as a background task.     *)
(* The handlers are plain "def" functions, so the framework runs each in a  *)
(* worker thread; a background task runs in a worker thread as well, after  *)
(* the response of the request that submitted it.  A handler is one atomic  *)
(* step (it makes at most one access to the shared pin); a flash sequence   *)
(* is one step per statement of the loop body, so that every other thread   *)
(* can run between two of its statements.                                   *)
(***************************************************************************)
EXTENDS Integers, FiniteSets, Sequences, TLC

\* Number of background-task slots: flash requests the model follows.
MaxTasks == 2

\* lamp_flash(duration: int = 5, ...)
DefaultDuration == 5
\* lamp_flash(..., flashes: int = 5, ...)
DefaultFlashes == 5

TaskIds == 1..MaxTasks

VARIABLES
    pin,        \* relay.value: TRUE = high (lamp on), FALSE = low
    tasks,      \* TaskIds -> the _flash closure submitted in that slot
    last,       \* the latest request served: handler name and response body
    lastWriter  \* who executed the latest pin write: a handler or "_flash"

vars == <<pin, tasks, last, lastWriter>>

----------------------------------------------------------------------------
\* Exact arithmetic for duration / (flashes * 2): a fraction <<num, den>> in
\* lowest terms with den > 0.

Abs(n) == IF n < 0 THEN -n ELSE n

RECURSIVE GCD(_, _)
GCD(a, b) == IF b = 0 THEN a ELSE GCD(b, a % b)

Frac(n, d) ==
    LET g == GCD(Abs(n), Abs(d))
        s == IF d < 0 THEN -1 ELSE 1
    IN  <<(s * n) \div g, (s * d) \div g>>

FracAdd(x, y) == Frac(x[1] * y[2] + y[1] * x[2], x[2] * y[2])

FracZero == <<0, 1>>

\* Floor division (//) in place of true division (/).
interval_floor(duration, flashes) ==
    IF flashes * 2 = 0
    THEN [ok |-> FALSE, err |-> "ZeroDivisionError", val |-> FracZero]
    ELSE [ok |-> TRUE, err |-> "", val |-> <<duration \div (flashes * 2), 1>>]

\* duration / (flashes * 2): true division; a zero divisor raises.
interval(duration, flashes) ==
    IF flashes * 2 = 0
    THEN [ok |-> FALSE, err |-> "ZeroDivisionError", val |-> FracZero]
    ELSE [ok |-> TRUE, err |-> "", val |-> Frac(duration, flashes * 2)]

\* sleep(max(0, secs)): a negative argument is clamped to zero.
sleep_clamped(r) ==
    IF ~r.ok THEN [ok |-> FALSE, err |-> r.err, neg |-> FALSE]
    ELSE [ok |-> TRUE, err |-> "", neg |-> FALSE]

\* time.sleep(secs): a negative argument raises ValueError.
sleep(r) ==
    IF ~r.ok THEN [ok |-> FALSE, err |-> r.err, neg |-> FALSE]
    ELSE IF r.val[1] < 0 THEN [ok |-> FALSE, err |-> "ValueError", neg |-> TRUE]
    ELSE [ok |-> TRUE, err |-> "", neg |-> FALSE]

\* relay.toggle() in place of relay.on().
relay_on_toggle(p) == ~p

\* A relay.off() that does not reach the pin.
relay_off_noop(p) == p

\* relay.on() / relay.off(): an unconditional write of the pin.
relay_on(p) == TRUE
relay_off(p) == FALSE

----------------------------------------------------------------------------
\* Query strings: a partial function from parameter name to integer.

\* No parameters.
NoQuery == [x \in {} |-> 0]

Param(q, name, default) == IF name \in DOMAIN q THEN q[name] ELSE default

Query(D, F) ==
    { [duration |-> d, flashes |-> f] : d \in D, f \in F }
    \cup { [duration |-> d] : d \in D }
    \cup { [flashes |-> f] : f \in F }
    \cup { NoQuery }

\* The requests of the concurrent specification: short sequences.
Queries ==
    { [duration |-> 1, flashes |-> 1], [duration |-> 1, flashes |-> 0] }

\* The requests of the one-sequence-at-a-time specification.
SoloQueries == Query({-1, 4}, {-1, 0, 2})

NoTask ==
    [st |-> "none", duration |-> 0, flashes |-> 0, i |-> 0, pc |-> "on",
     writes |-> 0, nsleeps |-> 0, slept |-> FracZero,
     lastSleep |-> FracZero, negSleep |-> FALSE, fault |-> ""]

\* What the handler op finds when it is called: the pin, whether a flash
\* sequence has written the pin and not ended yet, and whether the call
\* repeats the previous request with no pin write since that one.
Before(op) ==
    [pin |-> pin,
     busy |-> \E t \in TaskIds : tasks[t].st = "running" /\ tasks[t].writes > 0,
     repeat |-> last.op = op /\ lastWriter = op]

Served(op, q, t, resp) ==
    [op |-> op, query |-> q, task |-> t, resp |-> resp, before |-> Before(op)]

Active(t) == tasks[t].st \in {"pending", "running"}
Finished(t) == tasks[t].st \in {"done", "faulted"}

Init ==
    /\ pin = FALSE
    /\ tasks = [t \in TaskIds |-> NoTask]
    /\ last = [op |-> "none", query |-> NoQuery, task |-> 0,
               resp |-> [status |-> "none"],
               before |-> [pin |-> FALSE, busy |-> FALSE, repeat |-> FALSE]]
    /\ lastWriter = "init"

----------------------------------------------------------------------------
\* The handlers.

\* A lamp_on that also gives up the flash sequences under way.
LampOn_cancels ==
    /\ pin' = relay_on(pin)
    /\ lastWriter' = "lamp_on"
    /\ last' = Served("lamp_on", NoQuery, 0, [status |-> "on"])
    /\ tasks' = [t \in TaskIds |->
                    IF Active(t) THEN [tasks[t] EXCEPT !.st = "done"]
                    ELSE tasks[t]]

LampOn ==
    /\ pin' = relay_on(pin)
    /\ lastWriter' = "lamp_on"
    /\ last' = Served("lamp_on", NoQuery, 0, [status |-> "on"])
    /\ UNCHANGED tasks

LampOff ==
    /\ pin' = relay_off(pin)
    /\ lastWriter' = "lamp_off"
    /\ last' = Served("lamp_off", NoQuery, 0, [status |-> "off"])
    /\ UNCHANGED tasks

\* A health that reports the lamp: {"ok": relay.value}.
Health_reports_pin ==
    /\ last' = Served("health", NoQuery, 0, [ok |-> pin])
    /\ UNCHANGED <<pin, tasks, lastWriter>>

Health ==
    /\ last' = Served("health", NoQuery, 0, [ok |-> TRUE])
    /\ UNCHANGED <<pin, tasks, lastWriter>>

\* A lamp_flash that starts the sequence itself: the first relay.on() is
\* made before the response.
LampFlash_inline(q) ==
    LET duration == Param(q, "duration", DefaultDuration)
        flashes == Param(q, "flashes", DefaultFlashes)
    IN  \E t \in TaskIds :
          /\ tasks[t].st = "none"
          /\ \A u \in TaskIds : u < t => tasks[u].st # "none"
          /\ pin' = relay_on(pin)
          /\ lastWriter' = "_flash"
          /\ tasks' = [tasks EXCEPT ![t] =
                 [NoTask EXCEPT !.st = "running", !.pc = "sleep1",
                                !.writes = 1, !.duration = duration,
                                !.flashes = flashes]]
          /\ last' = Served("lamp_flash", q, t,
                             [status |-> "flashing", duration |-> duration,
                              flashes |-> flashes])
      
\* bg.add_task(_flash); return {...}: the closure captures duration and
\* flashes, nothing is computed or validated here.
LampFlash(q) ==
    LET duration == Param(q, "duration", DefaultDuration)
        flashes == Param(q, "flashes", DefaultFlashes)
    IN  \E t \in TaskIds :
          /\ tasks[t].st = "none"
          /\ \A u \in TaskIds : u < t => tasks[u].st # "none"
          /\ tasks' = [tasks EXCEPT ![t] =
                 [NoTask EXCEPT !.st = "pending", !.duration = duration,
                                !.flashes = flashes]]
          /\ last' = Served("lamp_flash", q, t,
                             [status |-> "flashing", duration |-> duration,
                              flashes |-> flashes])
                /\ UNCHANGED <<pin, lastWriter>>

----------------------------------------------------------------------------
\* The background task _flash of slot t.

\* A queue of background tasks: a task starts when no other is running.
TaskStart_serial(t) ==
    /\ tasks[t].st = "pending"
    /\ \A u \in TaskIds : tasks[u].st # "running"
    /\ tasks' = [tasks EXCEPT ![t].st = "running", ![t].pc = "on"]
    /\ UNCHANGED <<pin, last, lastWriter>>

\* The framework calls the submitted task once the response is out.
TaskStart(t) ==
    /\ tasks[t].st = "pending"
    /\ tasks' = [tasks EXCEPT ![t].st = "running", ![t].pc = "on"]
    /\ UNCHANGED <<pin, last, lastWriter>>

\* A sleep of the loop body: evaluate the argument, then sleep; pcNext and
\* iNext are where the loop continues when the sleep returns.
SleepStep(t, pcNext, iNext) ==
    LET r == interval(tasks[t].duration, tasks[t].flashes)
        s == sleep(r)
    IN  /\ tasks' = [tasks EXCEPT ![t] =
              IF s.ok
              THEN [@ EXCEPT !.pc = pcNext, !.i = iNext,
                             !.nsleeps = @ + 1,
                             !.slept = FracAdd(@, r.val),
                             !.lastSleep = r.val]
              ELSE [@ EXCEPT !.st = "faulted", !.fault = s.err,
                             !.negSleep = s.neg,
                             !.lastSleep = r.val]]
        /\ UNCHANGED <<pin, last, lastWriter>>

\* The interval computed once, ahead of the loop:
\* interval = duration / (flashes * 2); for _ in range(flashes): ...
FlashOn_hoisted(t) ==
    /\ tasks[t].st = "running"
    /\ tasks[t].pc = "on"
    /\ IF ~interval(tasks[t].duration, tasks[t].flashes).ok
       THEN /\ tasks' = [tasks EXCEPT ![t].st = "faulted",
                 ![t].fault = interval(tasks[t].duration, tasks[t].flashes).err]
            /\ UNCHANGED <<pin, lastWriter>>
       ELSE IF tasks[t].i < tasks[t].flashes
       THEN /\ pin' = relay_on(pin)
            /\ lastWriter' = "_flash"
            /\ tasks' = [tasks EXCEPT ![t].pc = "sleep1", ![t].writes = @ + 1]
       ELSE /\ tasks' = [tasks EXCEPT ![t].st = "done"]
            /\ UNCHANGED <<pin, lastWriter>>
    /\ UNCHANGED last

\* for _ in range(flashes): relay.on()   -- or the loop is over.
FlashOn(t) ==
    /\ tasks[t].st = "running"
    /\ tasks[t].pc = "on"
    /\ IF tasks[t].i < tasks[t].flashes
       THEN /\ pin' = relay_on(pin)
            /\ lastWriter' = "_flash"
            /\ tasks' = [tasks EXCEPT ![t].pc = "sleep1", ![t].writes = @ + 1]
       ELSE /\ tasks' = [tasks EXCEPT ![t].st = "done"]
            /\ UNCHANGED <<pin, lastWriter>>
    /\ UNCHANGED last

\* sleep(duration / (flashes * 2)) after relay.on()
FlashSleep1(t) ==
    /\ tasks[t].st = "running"
    /\ tasks[t].pc = "sleep1"
    /\ SleepStep(t, "off", tasks[t].i)

\* relay.off()
FlashOff(t) ==
    /\ tasks[t].st = "running"
    /\ tasks[t].pc = "off"
    /\ pin' = relay_off(pin)
    /\ lastWriter' = "_flash"
    /\ tasks' = [tasks EXCEPT ![t].pc = "sleep2", ![t].writes = @ + 1]
    /\ UNCHANGED last

\* sleep(duration / (flashes * 2)) after relay.off(); next iteration
FlashSleep2(t) ==
    /\ tasks[t].st = "running"
    /\ tasks[t].pc = "sleep2"
    /\ SleepStep(t, "on", tasks[t].i + 1)

TaskStep(t) ==
    \/ TaskStart(t)
    \/ FlashOn(t)
    \/ FlashSleep1(t)
    \/ FlashOff(t)
    \/ FlashSleep2(t)

----------------------------------------------------------------------------
\* Concurrent specification: any request at any time.

Next ==
    \/ LampOn
    \/ LampOff
    \/ Health
    \/ \E q \in Queries : LampFlash(q)
    \/ \E t \in TaskIds : TaskStart(t)
    \/ \E t \in TaskIds : FlashOn(t)
    \/ \E t \in TaskIds : FlashSleep1(t)
    \/ \E t \in TaskIds : FlashOff(t)
    \/ \E t \in TaskIds : FlashSleep2(t)

Spec == Init /\ [][Next]_vars

\* Worker threads are scheduled and a sleep returns: while some background
\* task has a step to take, a step of a background task is taken.
FairSpec == Spec /\ WF_vars(\E t \in TaskIds : TaskStep(t))

\* One sequence at a time: no request writes the pin, and no second flash is
\* submitted, while a flash sequence is submitted or running.
Idle == \A t \in TaskIds : ~Active(t)

SoloNext ==
    \/ Idle /\ LampOn
    \/ Idle /\ LampOff
    \/ Health
    \/ Idle /\ \E q \in SoloQueries : LampFlash(q)
    \/ \E t \in TaskIds : TaskStart(t)
    \/ \E t \in TaskIds : FlashOn(t)
    \/ \E t \in TaskIds : FlashSleep1(t)
    \/ \E t \in TaskIds : FlashOff(t)
    \/ \E t \in TaskIds : FlashSleep2(t)

SoloSpec == Init /\ [][SoloNext]_vars

----------------------------------------------------------------------------
\* Steps, as the properties below see them.

\* This step serves a request: it records the request, or (when the record
\* of the previous one reads the same) it is a write of lamp_on or lamp_off
\* over a write of a flash sequence.
RequestStep ==
    \/ last' # last
    \/ lastWriter' # lastWriter /\ lastWriter' \in {"lamp_on", "lamp_off"}

\* This step serves a request to the handler op.
StepOf(op) == RequestStep /\ last'.op = op

\* This step is a pin write of the flash sequence of slot t.
FlashWrote(t) == tasks'[t].writes = tasks[t].writes + 1

\* The parameters of the sequence of slot t are ones a caller means.
Valid(t) == tasks[t].flashes >= 1 /\ tasks[t].duration >= 0

----------------------------------------------------------------------------
\* C1: every /lamp/on, from any pin state and with flash sequences under
\* way or not, writes the pin high and answers {"status": "on"}; a second
\* /lamp/on straight after one, with no pin write in between, finds the pin
\* high, leaves it high and answers the same.
C1_LampOn ==
    [][ StepOf("lamp_on") =>
          /\ pin' = TRUE
          /\ last'.resp = [status |-> "on"]
          /\ (last.op = "lamp_on" /\ lastWriter = "lamp_on") =>
                (pin = TRUE /\ last'.resp = last.resp) ]_vars

\* A second /lamp/on in succession, served between two writes of a flash
\* sequence that is still running.
C1_Witness ==
    /\ last.op = "lamp_on"
    /\ last.before.repeat
    /\ last.before.busy
    /\ lastWriter = "lamp_on"
    /\ pin = TRUE
    /\ \E t \in TaskIds : tasks[t].st = "running"

\* C2: every /lamp/off writes the pin low and answers {"status": "off"};
\* a low pin goes high only by a write of lamp_on or of a running flash
\* sequence.
C2_LampOff ==
    [][ /\ StepOf("lamp_off") =>
              (pin' = FALSE /\ last'.resp = [status |-> "off"])
        /\ (pin = FALSE /\ pin' = TRUE) =>
              \/ StepOf("lamp_on")
              \/ \E t \in TaskIds : tasks[t].st = "running" /\ FlashWrote(t)
      ]_vars

\* /lamp/off served while the pin was high in the high phase of a running
\* sequence; the pin is low since.
C2_Witness ==
    /\ last.op = "lamp_off"
    /\ last.before.pin
    /\ last.before.busy
    /\ lastWriter = "lamp_off"
    /\ pin = FALSE
    /\ \E t \in TaskIds :
          tasks[t].st = "running" /\ tasks[t].pc \in {"sleep1", "off"}

\* C3: /health answers {"ok": true} in every state and changes neither
\* the pin nor any flash sequence.
C3_Health ==
    [][ StepOf("health") =>
          /\ last'.resp = [ok |-> TRUE]
          /\ pin' = pin
          /\ tasks' = tasks
          /\ lastWriter' = lastWriter ]_vars

\* /health served with the pin low and two flash sequences in flight.
C3_Witness ==
    /\ last.op = "health"
    /\ last.resp = [ok |-> TRUE]
    /\ pin = FALSE
    /\ Cardinality({t \in TaskIds : Active(t)}) >= 2

\* C4: /lamp/flash answers {"status": "flashing", duration, flashes} with
\* the given parameters or the defaults 5 and 5; the handler writes no pin
\* and sleeps not at all, it leaves one submitted task; every write and
\* every sleep of a sequence is a step of the started task, after the
\* response.
C4_FlashReturns ==
    /\ [][ StepOf("lamp_flash") =>
             LET t == last'.task
                 q == last'.query
                 d == IF "duration" \in DOMAIN q THEN q["duration"] ELSE 5
                 f == IF "flashes" \in DOMAIN q THEN q["flashes"] ELSE 5
             IN  /\ last'.resp =
                       [status |-> "flashing", duration |-> d, flashes |-> f]
                 /\ pin' = pin
                 /\ lastWriter' = lastWriter
                 /\ tasks[t].st = "none"
                 /\ tasks'[t].st = "pending"
                 /\ tasks'[t].duration = d
                 /\ tasks'[t].flashes = f
                 /\ tasks'[t].writes = 0
                 /\ tasks'[t].nsleeps = 0
                 /\ \A u \in TaskIds \ {t} : tasks'[u] = tasks[u] ]_vars
    /\ [][ \A t \in TaskIds :
             (tasks'[t].writes # tasks[t].writes
                 \/ tasks'[t].nsleeps # tasks[t].nsleeps) =>
                (tasks[t].st = "running" /\ ~RequestStep) ]_vars

\* A request without parameters, answered with the defaults, whose sequence
\* has written the pin since.
C4_Witness ==
    /\ last.op = "lamp_flash"
    /\ last.query = NoQuery
    /\ last.resp = [status |-> "flashing", duration |-> 5, flashes |-> 5]
    /\ tasks[last.task].st = "running"
    /\ tasks[last.task].writes > 0

\* C5: with flashes >= 1 and duration >= 0 and no other writer, the sequence
\* runs flashes times {pin high, sleep, pin low, sleep}; every sleep is
\* duration / (flashes * 2), the 2 * flashes sleeps add up to duration, the
\* pin is low when the sequence ends; duration 4 and flashes 2 give two
\* high-to-low changes with sleeps of 1.
C5_FlashSequence ==
    \A t \in TaskIds :
      LET k == tasks[t]
      IN  (k.st # "none" /\ k.flashes >= 1 /\ k.duration >= 0) =>
            /\ k.st # "faulted"
            /\ k.i <= k.flashes
            /\ k.st = "pending" => (k.writes = 0 /\ k.nsleeps = 0)
            /\ (k.st = "running" /\ k.pc = "on") =>
                  /\ k.writes = 2 * k.i
                  /\ k.nsleeps = 2 * k.i
                  /\ k.i >= 1 => pin = FALSE
            /\ (k.st = "running" /\ k.pc = "sleep1") =>
                  /\ k.i < k.flashes
                  /\ k.writes = 2 * k.i + 1
                  /\ k.nsleeps = 2 * k.i
                  /\ pin = TRUE
            /\ (k.st = "running" /\ k.pc = "off") =>
                  /\ k.writes = 2 * k.i + 1
                  /\ k.nsleeps = 2 * k.i + 1
                  /\ pin = TRUE
            /\ (k.st = "running" /\ k.pc = "sleep2") =>
                  /\ k.writes = 2 * k.i + 2
                  /\ k.nsleeps = 2 * k.i + 1
                  /\ pin = FALSE
            /\ k.nsleeps > 0 =>
                  k.lastSleep[1] * (k.flashes * 2) = k.duration * k.lastSleep[2]
            /\ k.slept[1] * (k.flashes * 2) = k.nsleeps * k.duration * k.slept[2]
            /\ k.st = "done" =>
                  /\ k.i = k.flashes
                  /\ k.writes = 2 * k.flashes
                  /\ k.nsleeps = 2 * k.flashes
                  /\ k.slept[1] = k.duration * k.slept[2]
                  /\ (last.op = "lamp_flash" /\ last.task = t) => pin = FALSE
            /\ (k.duration = 4 /\ k.flashes = 2 /\ k.nsleeps > 0) =>
                  k.lastSleep = <<1, 1>>
            /\ (k.duration = 4 /\ k.flashes = 2 /\ k.st = "done") =>
                  (k.i = 2 /\ k.nsleeps = 4 /\ k.slept = <<4, 1>>)

\* /lamp/flash?duration=4&flashes=2, submitted with the pin high, has run
\* to its end and left the pin low.
C5_Witness ==
    /\ last.op = "lamp_flash"
    /\ last.before.pin
    /\ tasks[last.task].st = "done"
    /\ tasks[last.task].duration = 4
    /\ tasks[last.task].flashes = 2
    /\ tasks[last.task].writes = 4
    /\ lastWriter = "_flash"
    /\ pin = FALSE

\* C6, as claimed: a sequence with flashes = 0 ends in a division-by-zero
\* fault.
C6_ZeroFlashesFaults ==
    \A t \in TaskIds :
      (tasks[t].flashes = 0 /\ Finished(t)) =>
         (tasks[t].st = "faulted" /\ tasks[t].fault = "ZeroDivisionError")

\* C6, amended: a sequence with flashes = 0 never faults: range(0) is empty,
\* the interval is never computed, no pin write and no sleep is made, and
\* the sequence ends normally.
C6_ZeroFlashesNoFault ==
    \A t \in TaskIds :
      (tasks[t].st # "none" /\ tasks[t].flashes = 0) =>
         /\ tasks[t].st # "faulted"
         /\ tasks[t].fault = ""
         /\ tasks[t].writes = 0
         /\ tasks[t].nsleeps = 0

\* A sequence with flashes = 0 has ended normally.
C6_Witness ==
    \E t \in TaskIds : tasks[t].flashes = 0 /\ tasks[t].st = "done"

\* C7: /lamp/flash?flashes=0 is answered with a client error, not with
\* "flashing", and no flash sequence is submitted for it.
C7_ZeroFlashesRejected ==
    (last.op = "lamp_flash" /\ last.resp.flashes = 0) =>
       (last.resp.status # "flashing" /\ tasks[last.task].st = "none")

\* C8: a flash sequence that is submitted or running can always take its
\* next step, and lamp_on and lamp_off can always be served, whatever the
\* other sequences do; a /lamp/flash during an earlier sequence is answered
\* "flashing", gets its own task and leaves the earlier ones as they are;
\* every write sets the pin to the value written and nothing else changes
\* the pin.
C8_NoExclusion ==
    /\ [](\A t \in TaskIds : Active(t) => ENABLED TaskStep(t))
    /\ [](ENABLED LampOn /\ ENABLED LampOff)
    /\ [][ (StepOf("lamp_flash") /\ \E u \in TaskIds : Active(u)) =>
             /\ last'.resp.status = "flashing"
             /\ tasks'[last'.task].st = "pending"
             /\ \A u \in TaskIds : Active(u) => tasks'[u] = tasks[u] ]_vars
    /\ [][ /\ StepOf("lamp_on") => pin' = TRUE
           /\ StepOf("lamp_off") => pin' = FALSE
           /\ \A t \in TaskIds :
                 FlashWrote(t) => pin' = (tasks'[t].pc = "sleep1")
           /\ pin' # pin =>
                 \/ StepOf("lamp_on")
                 \/ StepOf("lamp_off")
                 \/ \E t \in TaskIds : FlashWrote(t) ]_vars

\* Two sequences running; the pin is low in the high phase of the first,
\* by the off write of the second.
C8_Witness ==
    /\ tasks[1].st = "running"
    /\ tasks[1].pc = "sleep1"
    /\ tasks[2].st = "running"
    /\ tasks[2].pc = "sleep2"
    /\ lastWriter = "_flash"
    /\ pin = FALSE

\* C9, as claimed: a sequence with negative flashes or negative duration
\* has, when it ends, reached a sleep with a negative argument.
C9_NegativeReachesSleep ==
    \A t \in TaskIds :
      (Finished(t) /\ (tasks[t].flashes < 0 \/ tasks[t].duration < 0)) =>
         tasks[t].negSleep

\* C9, amended: with duration < 0 and flashes >= 1 the sequence writes the
\* pin high once and then reaches a sleep with a negative argument, and it
\* does not end without reaching it; with flashes < 0 the loop body never
\* runs: no write, no sleep, no fault, whatever the duration. Neither
\* request is rejected: each is answered "flashing" and gets its task.
C9_NegativeInputs ==
    /\ \A t \in TaskIds :
         LET k == tasks[t]
         IN  /\ (k.duration < 0 /\ k.flashes >= 1 /\ Finished(t)) =>
                   /\ k.negSleep
                   /\ k.lastSleep[1] < 0
                   /\ k.writes >= 1
             /\ (k.duration < 0 /\ k.flashes >= 1 /\ k.st = "running"
                    /\ k.nsleeps = 0) =>
                   /\ k.pc \in {"on", "sleep1"}
                   /\ k.pc = "sleep1" => k.writes = 1
             /\ (k.st # "none" /\ k.flashes < 0) =>
                   /\ ~k.negSleep
                   /\ k.st # "faulted"
                   /\ k.writes = 0
                   /\ k.nsleeps = 0
    /\ (last.op = "lamp_flash"
          /\ (last.resp.duration < 0 \/ last.resp.flashes < 0)) =>
          /\ last.resp.status = "flashing"
          /\ tasks[last.task].st # "none"
          /\ tasks[last.task].duration = last.resp.duration
          /\ tasks[last.task].flashes = last.resp.flashes

\* /lamp/flash?duration=-1&flashes=2 was answered "flashing" and its sequence
\* has reached the negative sleep after its first write.
C9_Witness ==
    /\ last.op = "lamp_flash"
    /\ last.resp = [status |-> "flashing", duration |-> -1, flashes |-> 2]
    /\ tasks[last.task].negSleep
    /\ tasks[last.task].writes = 1
    /\ pin = TRUE

\* C10: a submitted or running sequence with flashes >= 1 and duration >= 0
\* is changed by no request: its parameters stay, its writes are never
\* fewer, it never faults, it ends only with all 2 * flashes writes made,
\* and its off write sets the pin low whatever was written before; with
\* worker threads scheduled fairly, time and again every such sequence
\* submitted so far has ended with all its writes made, so each one does end.
C10_NoCancel ==
    /\ [][ \A t \in TaskIds :
             (Active(t) /\ Valid(t)) =>
                /\ tasks'[t].st \in {"pending", "running", "done"}
                /\ tasks'[t].duration = tasks[t].duration
                /\ tasks'[t].flashes = tasks[t].flashes
                /\ tasks'[t].writes >= tasks[t].writes
                /\ RequestStep => tasks'[t] = tasks[t]
                /\ tasks'[t].st = "done" =>
                      tasks'[t].writes = 2 * tasks[t].flashes
                /\ (tasks[t].st = "running" /\ tasks[t].pc = "off"
                      /\ tasks'[t] # tasks[t]) => pin' = FALSE ]_vars
    /\ []<>(\A t \in TaskIds :
               (tasks[t].st # "none" /\ Valid(t)) =>
                  /\ tasks[t].st = "done"
                  /\ tasks[t].writes = 2 * tasks[t].flashes)

\* /lamp/on served between two writes of the only sequence, which has made
\* its next off write since: the pin is low.
C10_Witness ==
    /\ last.op = "lamp_on"
    /\ last.before.busy
    /\ lastWriter = "_flash"
    /\ pin = FALSE
    /\ tasks[1].st = "running"
    /\ tasks[1].pc = "sleep2"
    /\ \A t \in TaskIds \ {1} : tasks[t].st = "none"

====
